---- MODULE Spec2Model ----
(***************************************************************************)
(* Model of the fuel-log service of src/main.py: the tables cars and       *)
(* fuel_logs, and the handler update_log_entry (PUT /api/logs/entry/{id}),  *)
(* which recalculates the chain of logs of a car after an edit.             *)
(*                                                                         *)
(* Numbers are the REAL columns and Python floats of the source, modelled   *)
(* as integers.  The rates of the cars are multiples of 100, so that        *)
(* (trip_distance / 100) * consumption_driving is exact.                    *)
(*                                                                         *)
(* init_db creates fuel_logs (IF NOT EXISTS) without the column start_fuel  *)
(* that update_log_entry reads and writes: the table of a deployment has    *)
(* the column or not, and start_fuel_col says which.                        *)
(*                                                                         *)
(* Spec runs each call of the handler as one step; SpecConc runs the calls  *)
(* of two clients statement by statement; SpecApi runs, one call a step,    *)
(* update_log_entry together with the reading handlers get_log_entry and    *)
(* get_initial_data.  The definitions from ChainBefore on state the         *)
(* ledger's notions of spec.md (chain order, predecessor).                  *)
(***************************************************************************)
EXTENDS Integers, Sequences, FiniteSets, TLC

VARIABLES
    cars,           \* table cars: id -> row (committed)
    fuel_logs,      \* table fuel_logs: id -> row (committed)
    start_fuel_col, \* whether fuel_logs has the column start_fuel
    last,           \* outcome of the last call of a handler run as one step
    conn,           \* the connections of the calls in progress: client -> call
    open_conns      \* connections get_db_conn() has opened and nothing has closed

vars == <<cars, fuel_logs, start_fuel_col, last, conn, open_conns>>

\* ------------------------------------------------------------- bounds
\* The fuel levels and mileages the model covers lie in -MaxFuel..MaxFuel.
MaxFuel == 4

FuelRange == (0 - MaxFuel)..MaxFuel
Users == {"u1", "u2"}

\* The bodies (LogUpdate without user_id) the requests carry.
LogUpdates ==
    {[date |-> 1, end_mileage |-> 1, refueled |-> 0, idle_hours |-> 0],
     [date |-> 2, end_mileage |-> 2, refueled |-> 0, idle_hours |-> 1],
     [date |-> 2, end_mileage |-> 1, refueled |-> 2, idle_hours |-> 1],
     [date |-> 1, end_mileage |-> 3, refueled |-> 1, idle_hours |-> 0]}

\* ------------------------------------------------------------- tables
CarIds == {1, 2, 3}
LogIds == {1, 2, 3, 4}
\* An id no row of fuel_logs has.
MissingLogId == 5

\* The derived columns of a log, as update_log_entry computes them.
RecalcLog(log, last_mileage, last_fuel, consumption_driving, consumption_idle) ==
    LET trip_distance == log.end_mileage - last_mileage
        fuel_consumed_driving == (trip_distance * consumption_driving) \div 100
        fuel_consumed_idle == log.idle_hours * consumption_idle
        fuel_consumed_total == fuel_consumed_driving + fuel_consumed_idle
        fuel_after_trip == last_fuel - fuel_consumed_total
    IN  [log EXCEPT !.start_mileage = last_mileage,
                    !.start_fuel = last_fuel,
                    !.trip_distance = trip_distance,
                    !.fuel_consumed_driving = fuel_consumed_driving,
                    !.fuel_consumed_idle = fuel_consumed_idle,
                    !.fuel_consumed_total = fuel_consumed_total,
                    !.fuel_after_trip = fuel_after_trip,
                    !.final_fuel_level = fuel_after_trip + log.refueled]

\* A row of fuel_logs with its raw columns set and its derived columns zero.
RawLog(id, car_id, date, end_mileage, refueled, idle_hours) ==
    [id |-> id, car_id |-> car_id, date |-> date,
     start_mileage |-> 0, end_mileage |-> end_mileage, trip_distance |-> 0,
     refueled |-> refueled, idle_hours |-> idle_hours,
     fuel_consumed_driving |-> 0, fuel_consumed_idle |-> 0,
     fuel_consumed_total |-> 0, fuel_after_trip |-> 0,
     final_fuel_level |-> 0, start_fuel |-> 0]

\* Car 1 holds the chain 1, 3, 4 (from mileage 0 with 4 of fuel), car 2 the
\* log 2 (from mileage 0 with 4 of fuel): every chain is consistent.
InitLogs ==
    LET l1 == RecalcLog(RawLog(1, 1, 1, 1, 0, 0), 0, 4, 100, 1)
        l3 == RecalcLog(RawLog(3, 1, 1, 1, 0, 1), l1.end_mileage, l1.final_fuel_level, 100, 1)
        l4 == RecalcLog(RawLog(4, 1, 2, 2, 0, 0), l3.end_mileage, l3.final_fuel_level, 100, 1)
        l2 == RecalcLog(RawLog(2, 2, 1, 1, 0, 0), 0, 4, 200, 1)
    IN  (1 :> l1) @@ (2 :> l2) @@ (3 :> l3) @@ (4 :> l4)

\* Each car stands at the end of its chain; car 3 has no log and the defaults
\* of its columns.  u1 owns the cars 1 and 3, u2 the car 2.
InitCars ==
    (1 :> [id |-> 1, user_id |-> "u1", name |-> "car1", plate |-> "p1",
           current_mileage |-> InitLogs[4].end_mileage,
           current_fuel |-> InitLogs[4].final_fuel_level,
           consumption_driving |-> 100, consumption_idle |-> 1,
           is_active |-> TRUE])
 @@ (2 :> [id |-> 2, user_id |-> "u2", name |-> "car2", plate |-> "p2",
           current_mileage |-> InitLogs[2].end_mileage,
           current_fuel |-> InitLogs[2].final_fuel_level,
           consumption_driving |-> 200, consumption_idle |-> 1,
           is_active |-> TRUE])
 @@ (3 :> [id |-> 3, user_id |-> "u1", name |-> "car3", plate |-> "p3",
           current_mileage |-> 0, current_fuel |-> 0,
           consumption_driving |-> 100, consumption_idle |-> 1,
           is_active |-> FALSE])

NoCall == [op |-> "none"]

\* The clients whose calls may overlap.
Clients == {1, 2}

\* A client that has not called yet.
IdleConn ==
    [pc |-> "idle", req |-> <<>>, found |-> <<>>, last_mileage |-> 0, last_fuel |-> 0,
     logs_to_recalculate |-> <<>>, i |-> 0, tx_logs |-> <<>>, tx_cars |-> <<>>,
     exc |-> "none", n_updates |-> 0, status_code |-> 0, touched |-> {},
     waited |-> FALSE, overlapped |-> FALSE]

Init ==
    /\ cars = InitCars
    /\ fuel_logs = InitLogs
    /\ start_fuel_col \in BOOLEAN
    /\ last = NoCall
    /\ conn = [p \in Clients |-> IdleConn]
    /\ open_conns = 0

\* ------------------------------------------------------------ queries
\* The result of cursor.fetchone() is <<>> (None) or <<row>>.
RowsOfCar(L, car_id) == {L[i] : i \in {j \in DOMAIN L : L[j].car_id = car_id}}

\* ORDER BY id DESC LIMIT 1
FirstByIdDesc(S) ==
    IF S = {} THEN <<>>
    ELSE <<CHOOSE r \in S : \A s \in S : s.id <= r.id>>

\* ORDER BY date DESC, id DESC LIMIT 1
FirstByDateDescIdDesc(S) ==
    IF S = {} THEN <<>>
    ELSE <<CHOOSE r \in S : \A s \in S :
               \/ s.date < r.date
               \/ s.date = r.date /\ s.id <= r.id>>

\* ORDER BY id ASC
RECURSIVE OrderByIdAsc(_)
OrderByIdAsc(S) ==
    IF S = {} THEN <<>>
    ELSE LET m == CHOOSE r \in S : \A s \in S : r.id <= s.id
         IN  <<m>> \o OrderByIdAsc(S \ {m})

\* SELECT l.*, c.consumption_driving, c.consumption_idle FROM fuel_logs l
\* JOIN cars c ON l.car_id = c.id WHERE l.id = log_id AND c.user_id = user_id
SelectLogToEdit(L, C, log_id, user_id) ==
    IF log_id \in DOMAIN L /\ C[L[log_id].car_id].user_id = user_id
    THEN <<[log |-> L[log_id],
            consumption_driving |-> C[L[log_id].car_id].consumption_driving,
            consumption_idle |-> C[L[log_id].car_id].consumption_idle]>>
    ELSE <<>>

\* SELECT * FROM fuel_logs WHERE car_id = .. AND id < log_id ORDER BY id DESC LIMIT 1
SelectPrevLog(L, car_id, log_id) ==
    FirstByIdDesc({r \in RowsOfCar(L, car_id) : r.id < log_id})

\* SELECT end_mileage, final_fuel_level FROM fuel_logs WHERE car_id = .. AND
\* date <= .. AND id != log_id ORDER BY date DESC, id DESC LIMIT 1
SelectPrevLogByDate(L, car_id, date, log_id) ==
    FirstByDateDescIdDesc({r \in RowsOfCar(L, car_id) : r.date <= date /\ r.id # log_id})

\* The logs to recalculate, selected without the car.
SelectLogsOfAllCars(L, car_id, log_id) ==
    OrderByIdAsc({L[i] : i \in {j \in DOMAIN L : j >= log_id}})

\* SELECT * FROM fuel_logs WHERE car_id = .. AND id >= log_id ORDER BY id ASC
SelectLogsToRecalculate(L, car_id, log_id) ==
    OrderByIdAsc({r \in RowsOfCar(L, car_id) : r.id >= log_id})

\* -------------------------------------------------------- connections
\* conn = get_db_conn(): psycopg2.connect opens a connection.
GetDbConn(n) == n + 1

\* conn.close()
CloseConn(n) == n - 1

\* ---------------------------------------------------- update_log_entry
\* The request: log_id of the path and the LogUpdate body.
Requests ==
    {[log_id |-> i, user_id |-> u, date |-> b.date, end_mileage |-> b.end_mileage,
      refueled |-> b.refueled, idle_hours |-> b.idle_hours] :
        i \in LogIds \cup {MissingLogId}, u \in Users, b \in LogUpdates}

\* The exceptions raised inside the try block.
NoExc == "none"
Http404 == "HTTPException(404)"
Http400 == "HTTPException(400)"
UndefinedColumn == "psycopg2.errors.UndefinedColumn"

Anchor(exc, mileage, fuel) == [exc |-> exc, mileage |-> mileage, fuel |-> fuel]

\* if prev_log: the base of the recalculation is taken from the previous log.
AnchorFromPrevLog(prev_log) ==
    Anchor(NoExc, prev_log.final_fuel_level, prev_log.final_fuel_level)

\* The else branch: the previous log is read again, then (the very first log)
\* the log before it by date, and without one the base of the log is kept.
AnchorOfFirstLog(L, has_col, log_to_edit, log_id) ==
    LET car_id == log_to_edit.car_id
        prev_again == SelectPrevLog(L, car_id, log_id)
        prev_by_date == SelectPrevLogByDate(L, car_id, log_to_edit.date, log_id)
    IN  IF Len(prev_again) > 0
        THEN Anchor(NoExc, prev_again[1].end_mileage, prev_again[1].final_fuel_level)
        ELSE IF ~has_col
        \* SELECT start_mileage, (start_fuel + refueled - final_fuel_level) ...
        THEN Anchor(UndefinedColumn, 0, 0)
        ELSE IF Len(prev_by_date) > 0
        THEN Anchor(NoExc, prev_by_date[1].end_mileage, prev_by_date[1].final_fuel_level)
        ELSE Anchor(NoExc, log_to_edit.start_mileage, log_to_edit.start_fuel)

\* Step 2 of the handler.
ResolveAnchor(L, has_col, log_to_edit, log_id) ==
    LET prev_log == SelectPrevLog(L, log_to_edit.car_id, log_id)
    IN  IF Len(prev_log) > 0
        THEN AnchorFromPrevLog(prev_log[1])
        ELSE AnchorOfFirstLog(L, has_col, log_to_edit, log_id)

\* ApplyLogUpdate without the date of the request.
ApplyLogUpdateKeepsDate(log, i, log_update) ==
    IF i = 1
    THEN [log EXCEPT !.end_mileage = log_update.end_mileage,
                     !.refueled = log_update.refueled,
                     !.idle_hours = log_update.idle_hours]
    ELSE log

\* if i == 0: the edited log takes the values of the request.
ApplyLogUpdate(log, i, log_update) ==
    IF i = 1
    THEN [log EXCEPT !.end_mileage = log_update.end_mileage,
                     !.refueled = log_update.refueled,
                     !.idle_hours = log_update.idle_hours,
                     !.date = log_update.date]
    ELSE log

\* RejectLog without its check.
RejectLogNever(log) == FALSE

\* The validation of the loop: if log['trip_distance'] < 0: raise ...
RejectLog(log) == log.trip_distance < 0

\* One iteration of the loop up to its UPDATE: the recalculated row.
RecalcIteration(log, i, log_update, rates, last_mileage, last_fuel) ==
    RecalcLog(ApplyLogUpdate(log, i, log_update), last_mileage, last_fuel,
              rates.consumption_driving, rates.consumption_idle)

\* The transaction of a connection holds the rows its UPDATEs wrote and did
\* not commit yet: tx_logs maps the ids of the written logs to their new rows,
\* tx_cars the ids of the written cars to their new state.
NoRows == <<>>

\* UPDATE fuel_logs SET date=.., ..., start_fuel=.. WHERE id=..
UpdateLogRow(tx_logs, log) ==
    [i \in DOMAIN tx_logs \cup {log.id} |-> IF i = log.id THEN log ELSE tx_logs[i]]

\* UPDATE cars SET current_mileage = .., current_fuel = .. WHERE id = ..
UpdateCarRow(tx_cars, car_id, last_mileage, last_fuel) ==
    [c \in DOMAIN tx_cars \cup {car_id} |->
        IF c = car_id
        THEN [current_mileage |-> last_mileage, current_fuel |-> last_fuel]
        ELSE tx_cars[c]]

\* Step 4: the loop over logs_to_recalculate from index i on, within the
\* transaction whose pending rows are tx_logs.
RECURSIVE RecalcLoop(_, _, _, _, _, _, _, _, _)
RecalcLoop(logs_to_recalculate, i, log_update, rates, has_col, tx_logs, last_mileage, last_fuel, n_updates) ==
    IF i > Len(logs_to_recalculate)
    THEN [exc |-> NoExc, detail_date |-> 0, tx_logs |-> tx_logs,
          last_mileage |-> last_mileage, last_fuel |-> last_fuel,
          n_updates |-> n_updates]
    ELSE LET log == RecalcIteration(logs_to_recalculate[i], i, log_update, rates,
                                    last_mileage, last_fuel)
         IN  IF RejectLog(log)
             THEN [exc |-> Http400, detail_date |-> log.date, tx_logs |-> tx_logs,
                   last_mileage |-> last_mileage, last_fuel |-> last_fuel,
                   n_updates |-> n_updates]
             ELSE IF ~has_col
             THEN [exc |-> UndefinedColumn, detail_date |-> 0, tx_logs |-> tx_logs,
                   last_mileage |-> last_mileage, last_fuel |-> last_fuel,
                   n_updates |-> n_updates]
             ELSE RecalcLoop(logs_to_recalculate, i + 1, log_update, rates, has_col,
                             UpdateLogRow(tx_logs, log), log.end_mileage,
                             log.final_fuel_level, n_updates + 1)

Tx(exc, detail_date, tx_logs, tx_cars, n_updates) ==
    [exc |-> exc, detail_date |-> detail_date, tx_logs |-> tx_logs,
     tx_cars |-> tx_cars, n_updates |-> n_updates]

\* The body of the try block, up to conn.commit(), run on the tables L, C.
TryBody(L, C, has_col, req) ==
    LET found == SelectLogToEdit(L, C, req.log_id, req.user_id)
    IN  IF Len(found) = 0 THEN Tx(Http404, 0, NoRows, NoRows, 0)
        ELSE
        LET log_to_edit == found[1].log
            car_id == log_to_edit.car_id
            anchor == ResolveAnchor(L, has_col, log_to_edit, req.log_id)
        IN  IF anchor.exc # NoExc THEN Tx(anchor.exc, 0, NoRows, NoRows, 0)
            ELSE
            LET loop == RecalcLoop(SelectLogsToRecalculate(L, car_id, req.log_id), 1,
                                   req, found[1], has_col, NoRows,
                                   anchor.mileage, anchor.fuel, 0)
            IN  IF loop.exc # NoExc
                THEN Tx(loop.exc, loop.detail_date, loop.tx_logs, NoRows, loop.n_updates)
                ELSE Tx(NoExc, 0, loop.tx_logs,
                        UpdateCarRow(NoRows, car_id, loop.last_mileage, loop.last_fuel),
                        loop.n_updates)

Tables(L, C) == [fuel_logs |-> L, cars |-> C]

\* conn.commit(): the pending rows of the transaction become rows of the tables.
Commit(L, C, tx_logs, tx_cars) ==
    Tables([i \in DOMAIN L |-> IF i \in DOMAIN tx_logs THEN tx_logs[i] ELSE L[i]],
           [c \in DOMAIN C |->
               IF c \in DOMAIN tx_cars
               THEN [C[c] EXCEPT !.current_mileage = tx_cars[c].current_mileage,
                                 !.current_fuel = tx_cars[c].current_fuel]
               ELSE C[c]])

\* Rollback that keeps what the statements wrote.
RollbackKeepsPending(L, C, tx_logs, tx_cars) == Commit(L, C, tx_logs, tx_cars)

\* conn.rollback(): the pending rows of the transaction are dropped.
Rollback(L, C, tx_logs, tx_cars) == Tables(L, C)

\* except (Exception, psycopg2.DatabaseError) as error: every exception of the
\* try block, the HTTPExceptions among them, is answered with status 500.
ExceptStatus(exc) == 500

\* The whole handler on the tables L, C: the answer and the tables it leaves.
UpdateLogEntry(L, C, has_col, req) ==
    LET tx == TryBody(L, C, has_col, req)
    IN  IF tx.exc = NoExc
        THEN [status_code |-> 200, exc |-> NoExc, detail_date |-> 0,
              n_updates |-> tx.n_updates,
              db |-> Commit(L, C, tx.tx_logs, tx.tx_cars)]
        ELSE [status_code |-> ExceptStatus(tx.exc), exc |-> tx.exc,
              detail_date |-> tx.detail_date, n_updates |-> tx.n_updates,
              db |-> Rollback(L, C, tx.tx_logs, tx.tx_cars)]

\* The values of the tables stay in the range the model covers.
InRange(L, C) ==
    /\ \A i \in DOMAIN L :
        /\ L[i].final_fuel_level \in FuelRange
        /\ L[i].fuel_after_trip \in FuelRange
        /\ L[i].start_fuel \in FuelRange
        /\ L[i].start_mileage \in FuelRange
    /\ \A c \in DOMAIN C : C[c].current_fuel \in FuelRange

\* PUT /api/logs/entry/{log_id}, one call run from its beginning to its end.
EditTrip(req) ==
    \E r \in {UpdateLogEntry(fuel_logs, cars, start_fuel_col, req)} :
        /\ InRange(r.db.fuel_logs, r.db.cars)
        /\ fuel_logs' = r.db.fuel_logs
        /\ cars' = r.db.cars
        /\ last' = [op |-> "update_log_entry", log_id |-> req.log_id,
                    status_code |-> r.status_code, exc |-> r.exc,
                    detail_date |-> r.detail_date, n_updates |-> r.n_updates]
        /\ open_conns' = CloseConn(GetDbConn(open_conns))
        /\ UNCHANGED <<start_fuel_col, conn>>

Next == \E req \in Requests : EditTrip(req)

Spec == Init /\ [][Next]_vars

\* ------------------------------------------- overlapping calls, by statement
\* Each client calls update_log_entry once, on a connection of its own; the
\* calls run statement by statement and interleave.  The connection is not in
\* autocommit mode and sets no isolation level, so the transaction runs at
\* PostgreSQL's default READ COMMITTED: a SELECT sees the committed tables, an
\* UPDATE waits while another transaction holds its row, and rows stay locked
\* until the transaction commits or rolls back.

\* The cars whose rows a result set holds.
CarsOfRows(rows) == {rows[j].car_id : j \in DOMAIN rows}

\* Another transaction has written the log id and not ended yet.
LogRowLocked(p, id) == \E q \in Clients \ {p} : id \in DOMAIN conn[q].tx_logs

\* Another transaction has written the car car_id and not ended yet.
CarRowLocked(p, car_id) == \E q \in Clients \ {p} : car_id \in DOMAIN conn[q].tx_cars

\* raise inside the try block: the statement ends the body with an exception.
Raise(c, exc) == [c EXCEPT !.pc = "except", !.exc = exc]

\* The call of the connection has begun and not returned.
InProgress(c) == c.pc \notin {"idle", "done"}

\* Step 1: the log to edit and the rates of its car.  The model notes on both
\* connections that the calls overlap when the other call is in progress.
SelectLogStep(p, req) ==
    /\ conn[p].pc = "idle"
    /\ LET found == SelectLogToEdit(fuel_logs, cars, req.log_id, req.user_id)
           c == [conn[p] EXCEPT !.req = <<req>>, !.found = found,
                    !.touched = IF req.log_id \in DOMAIN fuel_logs
                                THEN {fuel_logs[req.log_id].car_id} ELSE {}]
           begun == [conn EXCEPT ![p] =
                IF Len(found) = 0 THEN Raise(c, Http404)
                ELSE [c EXCEPT !.pc = "prev"]]
       IN  conn' = [q \in Clients |->
                IF \E o \in Clients \ {p} : InProgress(conn[o])
                THEN [begun[q] EXCEPT !.overlapped = TRUE]
                ELSE begun[q]]
    /\ open_conns' = GetDbConn(open_conns)
    /\ UNCHANGED <<cars, fuel_logs, start_fuel_col, last>>

\* Step 2: the previous log, and with one the base of the recalculation.
SelectPrevStep(p) ==
    /\ conn[p].pc = "prev"
    /\ LET c == conn[p]
           prev_log == SelectPrevLog(fuel_logs, c.found[1].log.car_id, c.req[1].log_id)
       IN  conn' = [conn EXCEPT ![p] =
                IF Len(prev_log) > 0
                THEN LET anchor == AnchorFromPrevLog(prev_log[1])
                     IN  [c EXCEPT !.pc = "suffix",
                                   !.last_mileage = anchor.mileage,
                                   !.last_fuel = anchor.fuel,
                                   !.touched = @ \cup CarsOfRows(prev_log)]
                ELSE [c EXCEPT !.pc = "first"]]
    /\ UNCHANGED <<cars, fuel_logs, start_fuel_col, last, open_conns>>

\* Step 2, else branch: the SELECTs that look for the base of the first log.
SelectFirstStep(p) ==
    /\ conn[p].pc = "first"
    /\ LET c == conn[p]
           log_to_edit == c.found[1].log
           anchor == AnchorOfFirstLog(fuel_logs, start_fuel_col, log_to_edit, c.req[1].log_id)
           read == SelectPrevLogByDate(fuel_logs, log_to_edit.car_id, log_to_edit.date,
                                       c.req[1].log_id)
       IN  conn' = [conn EXCEPT ![p] =
                IF anchor.exc # NoExc THEN Raise(c, anchor.exc)
                ELSE [c EXCEPT !.pc = "suffix",
                               !.last_mileage = anchor.mileage,
                               !.last_fuel = anchor.fuel,
                               !.touched = @ \cup CarsOfRows(read)]]
    /\ UNCHANGED <<cars, fuel_logs, start_fuel_col, last, open_conns>>

\* Step 3: the logs to recalculate.
SelectSuffixStep(p) ==
    /\ conn[p].pc = "suffix"
    /\ LET c == conn[p]
           rows == SelectLogsToRecalculate(fuel_logs, c.found[1].log.car_id, c.req[1].log_id)
       IN  conn' = [conn EXCEPT ![p] =
                [c EXCEPT !.pc = "loop", !.logs_to_recalculate = rows, !.i = 1,
                          !.touched = @ \cup CarsOfRows(rows)]]
    /\ UNCHANGED <<cars, fuel_logs, start_fuel_col, last, open_conns>>

\* Step 4: one iteration of the loop, up to and with its UPDATE, which waits
\* for the row while another transaction holds it.
LoopStep(p) ==
    /\ conn[p].pc = "loop"
    /\ LET c == conn[p]
       IN  IF c.i > Len(c.logs_to_recalculate)
           THEN conn' = [conn EXCEPT ![p] = [c EXCEPT !.pc = "car"]]
           ELSE LET log == RecalcIteration(c.logs_to_recalculate[c.i], c.i, c.req[1],
                                           c.found[1], c.last_mileage, c.last_fuel)
                IN  IF RejectLog(log)
                    THEN conn' = [conn EXCEPT ![p] = Raise(c, Http400)]
                    ELSE IF ~start_fuel_col
                    THEN conn' = [conn EXCEPT ![p] = Raise(c, UndefinedColumn)]
                    ELSE IF LogRowLocked(p, log.id)
                    THEN /\ ~c.waited
                         /\ conn' = [conn EXCEPT ![p] = [c EXCEPT !.waited = TRUE]]
                    ELSE conn' = [conn EXCEPT ![p] =
                            [c EXCEPT !.i = @ + 1,
                                      !.tx_logs = UpdateLogRow(@, log),
                                      !.n_updates = @ + 1,
                                      !.last_mileage = log.end_mileage,
                                      !.last_fuel = log.final_fuel_level,
                                      !.touched = @ \cup {log.car_id}]]
    /\ UNCHANGED <<cars, fuel_logs, start_fuel_col, last, open_conns>>

\* Step 5: the UPDATE of the car, which waits for the row of the car.
UpdateCarStep(p) ==
    /\ conn[p].pc = "car"
    /\ LET c == conn[p]
           car_id == c.found[1].log.car_id
       IN  IF CarRowLocked(p, car_id)
           THEN /\ ~c.waited
                /\ conn' = [conn EXCEPT ![p] = [c EXCEPT !.waited = TRUE]]
           ELSE conn' = [conn EXCEPT ![p] =
                   [c EXCEPT !.pc = "commit",
                             !.tx_cars = UpdateCarRow(@, car_id, c.last_mileage, c.last_fuel),
                             !.touched = @ \cup {car_id}]]
    /\ UNCHANGED <<cars, fuel_logs, start_fuel_col, last, open_conns>>

\* The call has returned: its locals are gone, its answer and what the model
\* observed of it stay.
Returned(c, status_code) ==
    [IdleConn EXCEPT !.pc = "done", !.req = c.req, !.exc = c.exc,
                     !.n_updates = c.n_updates, !.status_code = status_code,
                     !.touched = c.touched, !.waited = c.waited,
                     !.overlapped = c.overlapped]

\* conn.commit(), then finally: conn.close() and the answer.
CommitStep(p) ==
    /\ conn[p].pc = "commit"
    /\ LET db == Commit(fuel_logs, cars, conn[p].tx_logs, conn[p].tx_cars)
       IN  /\ fuel_logs' = db.fuel_logs
           /\ cars' = db.cars
    /\ conn' = [conn EXCEPT ![p] = Returned(conn[p], 200)]
    /\ open_conns' = CloseConn(open_conns)
    /\ UNCHANGED <<start_fuel_col, last>>

\* except ...: conn.rollback(), raise HTTPException(500), finally: conn.close().
ExceptStep(p) ==
    /\ conn[p].pc = "except"
    /\ LET db == Rollback(fuel_logs, cars, conn[p].tx_logs, conn[p].tx_cars)
       IN  /\ fuel_logs' = db.fuel_logs
           /\ cars' = db.cars
    /\ conn' = [conn EXCEPT ![p] = Returned(conn[p], ExceptStatus(conn[p].exc))]
    /\ open_conns' = CloseConn(open_conns)
    /\ UNCHANGED <<start_fuel_col, last>>

NextConc ==
    \E p \in Clients :
        \/ \E req \in Requests : SelectLogStep(p, req)
        \/ SelectPrevStep(p)
        \/ SelectFirstStep(p)
        \/ SelectSuffixStep(p)
        \/ LoopStep(p)
        \/ UpdateCarStep(p)
        \/ CommitStep(p)
        \/ ExceptStep(p)

SpecConc == Init /\ [][NextConc]_vars

\* ------------------------------------------------- the reading handlers
\* The connections left open that the model covers.
MaxOpenConns == 2

\* SELECT l.end_mileage, l.refueled, l.idle_hours, l.date FROM fuel_logs l
\* JOIN cars c ON l.car_id = c.id WHERE l.id = log_id AND c.user_id = user_id
SelectLogEntry(L, C, log_id, user_id) ==
    IF log_id \in DOMAIN L /\ C[L[log_id].car_id].user_id = user_id
    THEN <<[end_mileage |-> L[log_id].end_mileage, refueled |-> L[log_id].refueled,
            idle_hours |-> L[log_id].idle_hours, date |-> L[log_id].date]>>
    ELSE <<>>

\* get_log_entry on the tables L, C with n connections open: without a log the
\* handler raises inside the with block and never reaches conn.close().
GetLogEntryCall(L, C, n, log_id, user_id) ==
    LET conn_opened == GetDbConn(n)
        log == SelectLogEntry(L, C, log_id, user_id)
    IN  IF Len(log) = 0
        THEN [status_code |-> 404, exc |-> Http404, log |-> log,
              open_conns |-> conn_opened]
        ELSE [status_code |-> 200, exc |-> NoExc, log |-> log,
              open_conns |-> CloseConn(conn_opened)]

\* GET /api/logs/entry/{log_id}/{user_id}
GetLogEntry(log_id, user_id) ==
    \E r \in {GetLogEntryCall(fuel_logs, cars, open_conns, log_id, user_id)} :
        /\ r.open_conns <= MaxOpenConns
        /\ open_conns' = r.open_conns
        /\ last' = [op |-> "get_log_entry", log_id |-> log_id,
                    status_code |-> r.status_code, exc |-> r.exc, log |-> r.log]
        /\ UNCHANGED <<cars, fuel_logs, start_fuel_col, conn>>

\* SELECT * FROM cars WHERE user_id = .. ORDER BY id
SelectCarsOfUser(C, user_id) ==
    OrderByIdAsc({C[c] : c \in {d \in DOMAIN C : C[d].user_id = user_id}})

\* next((car for car in cars if car['is_active']), None)
FirstActive(rows) ==
    IF \E j \in DOMAIN rows : rows[j].is_active
    THEN <<rows[CHOOSE j \in DOMAIN rows :
                  rows[j].is_active /\ \A h \in 1..(j - 1) : ~rows[h].is_active]>>
    ELSE <<>>

\* The last car of the result set.
LastCar(rows) == rows[Len(rows)]

\* cars[0]
FirstCar(rows) == rows[1]

\* UPDATE cars SET is_active = true WHERE id = .. AND user_id = ..
ActivateCar(C, car_id, user_id) ==
    [c \in DOMAIN C |->
        IF c = car_id /\ C[c].user_id = user_id
        THEN [C[c] EXCEPT !.is_active = TRUE]
        ELSE C[c]]

\* get_initial_data on the table C: the answer (the cars as they were read
\* and active_car_id, <<>> for None) and the table the call leaves.
GetInitialDataCall(C, user_id) ==
    LET rows == SelectCarsOfUser(C, user_id)
        active_car == FirstActive(rows)
        active_car_id == IF Len(active_car) > 0 THEN <<active_car[1].id>> ELSE <<>>
    IN  IF Len(active_car_id) = 0 /\ Len(rows) > 0
        THEN [cars |-> rows, active_car_id |-> <<FirstCar(rows).id>>,
              db_cars |-> ActivateCar(C, FirstCar(rows).id, user_id)]
        ELSE [cars |-> rows, active_car_id |-> active_car_id, db_cars |-> C]

\* GET /api/init/{user_id}
GetInitialData(user_id) ==
    \E r \in {GetInitialDataCall(cars, user_id)} :
        /\ cars' = r.db_cars
        /\ open_conns' = CloseConn(GetDbConn(open_conns))
        /\ last' = [op |-> "get_initial_data", user_id |-> user_id,
                    status_code |-> 200, cars |-> r.cars,
                    active_car_id |-> r.active_car_id]
        /\ UNCHANGED <<fuel_logs, start_fuel_col, conn>>

\* A user without a car.
NoCarUser == "u3"

\* The is_active flags the cars may have: at most one car of a user is active.
ActiveFlags ==
    {f \in [CarIds -> BOOLEAN] :
        \A c, d \in CarIds :
            (f[c] /\ f[d] /\ InitCars[c].user_id = InitCars[d].user_id) => c = d}

InitApi ==
    /\ \E f \in ActiveFlags :
           cars = [c \in CarIds |-> [InitCars[c] EXCEPT !.is_active = f[c]]]
    /\ fuel_logs = InitLogs
    /\ start_fuel_col \in BOOLEAN
    /\ last = NoCall
    /\ conn = [p \in Clients |-> IdleConn]
    /\ open_conns = 0

\* The requests of update_log_entry that SpecApi draws: those dated 2.
ApiRequests == {req \in Requests : req.date = 2}

NextApi ==
    \/ \E req \in ApiRequests : EditTrip(req)
    \/ \E log_id \in LogIds \cup {MissingLogId}, user_id \in Users :
           GetLogEntry(log_id, user_id)
    \/ \E user_id \in Users \cup {NoCarUser} : GetInitialData(user_id)

SpecApi == InitApi /\ [][NextApi]_vars

\* ------------------------------------------------------------- chains
\* The chain of a car orders its logs by (date, id).
ChainBefore(a, b) == a.date < b.date \/ (a.date = b.date /\ a.id < b.id)

\* p is the log right before e in the chain of e's car.
IsChainPredecessor(L, p, e) ==
    /\ p.car_id = e.car_id
    /\ ChainBefore(p, e)
    /\ \A q \in RowsOfCar(L, e.car_id) : ~(ChainBefore(p, q) /\ ChainBefore(q, e))

\* e starts where the log before it in the chain ended.
StartsAtPredecessor(L, e) ==
    \A p \in RowsOfCar(L, e.car_id) :
        IsChainPredecessor(L, p, e) =>
            /\ e.start_mileage = p.end_mileage
            /\ e.start_fuel = p.final_fuel_level

ChainInvariant(L) == \A i \in DOMAIN L : StartsAtPredecessor(L, L[i])

\* The last log of the chain of a car.
IsChainLast(L, e) == \A q \in RowsOfCar(L, e.car_id) : q = e \/ ChainBefore(q, e)

\* The derived columns of e follow from its raw columns and the rates of its car.
DerivedColumnsHold(C, e) ==
    /\ e.trip_distance = e.end_mileage - e.start_mileage
    /\ e.fuel_consumed_driving * 100 = e.trip_distance * C[e.car_id].consumption_driving
    /\ e.fuel_consumed_idle = e.idle_hours * C[e.car_id].consumption_idle
    /\ e.fuel_consumed_total = e.fuel_consumed_driving + e.fuel_consumed_idle
    /\ e.fuel_after_trip = e.start_fuel - e.fuel_consumed_total
    /\ e.final_fuel_level = e.fuel_after_trip + e.refueled

EditSucceeded == last.op = "update_log_entry" /\ last.status_code = 200
EditFailed == last.op = "update_log_entry" /\ last.status_code # 200

\* ------------------------------------------------------------- claims
\* C1: after a successful editTrip every log that is not the first of its
\* chain starts at the end_mileage and the final_fuel_level of the log before it.
C1_ChainAfterEdit == EditSucceeded => ChainInvariant(fuel_logs)

\* C2: an editTrip that fails leaves every log and every car as they were
\* before the call.
C2_FailedEditChangesNothing ==
    [][(last'.op = "update_log_entry" /\ last'.status_code # 200)
        => (fuel_logs' = fuel_logs /\ cars' = cars)]_vars

\* An edit failed after the loop had issued UPDATEs for earlier logs.
C2_Witness == EditFailed /\ last.n_updates >= 1

\* C3: no log ever has a negative final_fuel_level: an edit that yields one
\* is rejected.
C3_FuelNeverNegative == \A i \in DOMAIN fuel_logs : fuel_logs[i].final_fuel_level >= 0

\* C4: after a successful editTrip the car stands at the end_mileage and the
\* final_fuel_level of the last log of its chain.
C4_CarAtChainEnd ==
    EditSucceeded =>
        \A e \in RowsOfCar(fuel_logs, fuel_logs[last.log_id].car_id) :
            IsChainLast(fuel_logs, e) =>
                /\ cars[e.car_id].current_mileage = e.end_mileage
                /\ cars[e.car_id].current_fuel = e.final_fuel_level

\* C6: after a successful editTrip of log k, every log from k to the end of
\* the chain holds the derived columns computed with the rates of the car, and
\* every log after k starts at the running anchor, the end of the log before it.
C6_SuffixRecomputed ==
    EditSucceeded =>
        LET k == fuel_logs[last.log_id]
        IN  \A e \in RowsOfCar(fuel_logs, k.car_id) :
                (e = k \/ ChainBefore(k, e)) =>
                    /\ DerivedColumnsHold(cars, e)
                    /\ (e # k => StartsAtPredecessor(fuel_logs, e))

\* The tables after the edits a then b, run one after the other from the
\* initial tables.
EditsInTurn(a, b) ==
    LET first == UpdateLogEntry(InitLogs, InitCars, start_fuel_col, a).db
    IN  UpdateLogEntry(first.fuel_logs, first.cars, start_fuel_col, b).db

BothReturned == \A p \in Clients : conn[p].pc = "done"
BothBegun == \A p \in Clients : conn[p].pc # "idle"

\* The car of the log a request names, 0 when no log has the id.
TargetCar(req) == IF req.log_id \in LogIds THEN InitLogs[req.log_id].car_id ELSE 0

\* C5: two overlapping editTrip calls on logs of the same car leave the
\* tables as the two edits run one after the other, in one of the two orders,
\* would.
C5_SameCarSerialized ==
    (/\ BothReturned
     /\ TargetCar(conn[1].req[1]) # 0
     /\ TargetCar(conn[1].req[1]) = TargetCar(conn[2].req[1]))
        => Tables(fuel_logs, cars) \in {EditsInTurn(conn[1].req[1], conn[2].req[1]),
                                        EditsInTurn(conn[2].req[1], conn[1].req[1])}

\* C7: an editTrip on a log that does not exist or is not the user's ends
\* with status 404.
C7_NotFoundIs404 ==
    (last.op = "update_log_entry" /\ last.exc = Http404) => last.status_code = 404

\* C8: an editTrip whose replay finds a negative trip_distance or a negative
\* final_fuel_level ends with the client error ChainViolation (status 400).
C8_ChainViolationIs400 ==
    /\ (last.op = "update_log_entry" /\ last.exc = Http400) => last.status_code = 400
    /\ EditSucceeded =>
           \A e \in RowsOfCar(fuel_logs, fuel_logs[last.log_id].car_id) :
               e.id >= last.log_id => e.final_fuel_level >= 0

\* C9: every stored log has trip_distance = end_mileage - start_mileage >= 0.
C9_DistanceNeverNegative ==
    \A i \in DOMAIN fuel_logs :
        /\ fuel_logs[i].trip_distance = fuel_logs[i].end_mileage - fuel_logs[i].start_mileage
        /\ fuel_logs[i].trip_distance >= 0

\* C10: two editTrip calls on logs of different cars, however they interleave,
\* read and write only rows of their own car, never wait for each other, and
\* leave the tables as the two edits run one after the other, in either order,
\* would.
C10_DifferentCarsIndependent ==
    (/\ BothBegun
     /\ TargetCar(conn[1].req[1]) # 0
     /\ TargetCar(conn[2].req[1]) # 0
     /\ TargetCar(conn[1].req[1]) # TargetCar(conn[2].req[1]))
        => /\ \A p \in Clients :
                /\ conn[p].touched \subseteq {TargetCar(conn[p].req[1])}
                /\ ~conn[p].waited
           /\ BothReturned =>
                /\ Tables(fuel_logs, cars) = EditsInTurn(conn[1].req[1], conn[2].req[1])
                /\ Tables(fuel_logs, cars) = EditsInTurn(conn[2].req[1], conn[1].req[1])

\* Two overlapping edits of logs of different cars both committed.
C10_Witness ==
    /\ BothReturned
    /\ TargetCar(conn[1].req[1]) = 1
    /\ TargetCar(conn[2].req[1]) = 2
    /\ \A p \in Clients : conn[p].status_code = 200 /\ conn[p].overlapped

\* An edit was rejected for a negative trip_distance at a log after the edited one.
C9_Witness ==
    /\ last.op = "update_log_entry"
    /\ last.exc = Http400
    /\ last.n_updates >= 1
    /\ last.detail_date = 2

\* The logs of a set in chain order.
RECURSIVE OrderByChain(_)
OrderByChain(S) ==
    IF S = {} THEN <<>>
    ELSE LET m == CHOOSE r \in S : \A s \in S : s = r \/ ChainBefore(r, s)
         IN  <<m>> \o OrderByChain(S \ {m})

\* The log e followed by the logs after it in the chain of its car.
ChainFrom(L, e) ==
    OrderByChain({r \in RowsOfCar(L, e.car_id) : r = e \/ ChainBefore(e, r)})

\* C11: for every log k, whatever the order of ids and dates, the anchor the
\* handler resolves is the end_mileage and the final_fuel_level of the log
\* right before k in (date, id) order, and the logs it recalculates are k and
\* the logs after k in (date, id) order, in that order.
C11_AnchorAndSuffixByChainOrder ==
    \A k \in DOMAIN fuel_logs :
        LET e == fuel_logs[k]
        IN  /\ SelectLogsToRecalculate(fuel_logs, e.car_id, k) = ChainFrom(fuel_logs, e)
            /\ \A p \in RowsOfCar(fuel_logs, e.car_id) :
                   IsChainPredecessor(fuel_logs, p, e) =>
                       ResolveAnchor(fuel_logs, start_fuel_col, e, k)
                           = Anchor(NoExc, p.end_mileage, p.final_fuel_level)

\* No log of the car of log k has a smaller id.
IsFirstLogById(L, k) == \A r \in RowsOfCar(L, L[k].car_id) : r.id >= k

\* C12: a successful editTrip of the log with the smallest id of its car
\* leaves the start_mileage and the start_fuel of that log as they were stored
\* before the call, whatever the dates of the other logs of the car.
C12_FirstLogKeepsBase ==
    [][(/\ last'.op = "update_log_entry"
        /\ last'.status_code = 200
        /\ IsFirstLogById(fuel_logs, last'.log_id))
        => /\ fuel_logs'[last'.log_id].start_mileage = fuel_logs[last'.log_id].start_mileage
           /\ fuel_logs'[last'.log_id].start_fuel = fuel_logs[last'.log_id].start_fuel]_vars

\* The columns of a log that a request sets.
RawColumns(r) ==
    [date |-> r.date, end_mileage |-> r.end_mileage, refueled |-> r.refueled,
     idle_hours |-> r.idle_hours]

\* C13: whenever an editTrip succeeds, the edited log holds the date,
\* end_mileage, refueled and idle_hours of the request, and every other log,
\* the later logs of the suffix among them, keeps the date, end_mileage,
\* refueled and idle_hours it had.
C13_RawColumnsAfterEdit ==
    \A req \in Requests :
        \A r \in {UpdateLogEntry(fuel_logs, cars, start_fuel_col, req)} :
            r.status_code = 200 =>
                /\ RawColumns(r.db.fuel_logs[req.log_id]) = RawColumns(req)
                /\ \A i \in DOMAIN fuel_logs \ {req.log_id} :
                       RawColumns(r.db.fuel_logs[i]) = RawColumns(fuel_logs[i])

\* A successful edit rewrote the edited log and a log after it by id, and the
\* edited log now holds the date of the request, later than the date that log
\* has kept.
C13_Witness ==
    /\ EditSucceeded
    /\ last.n_updates >= 2
    /\ \E e \in RowsOfCar(fuel_logs, fuel_logs[last.log_id].car_id) :
           e.id > last.log_id /\ e.date < fuel_logs[last.log_id].date

\* The rows a call leaves as they were: the logs of the car of log k before k
\* in the chain, the logs and the rows of the other cars, and of the car of
\* k every column but current_mileage and current_fuel.
FrameOfEdit(L, C, L2, C2, k) ==
    /\ \A i \in DOMAIN L :
           (L[i].car_id # L[k].car_id \/ ChainBefore(L[i], L[k])) => L2[i] = L[i]
    /\ \A c \in DOMAIN C :
           IF c = L[k].car_id
           THEN C2[c] = [C[c] EXCEPT !.current_mileage = C2[c].current_mileage,
                                     !.current_fuel = C2[c].current_fuel]
           ELSE C2[c] = C[c]

\* C14: a successful editTrip leaves unchanged every log of the car before
\* the edited log in the chain, every log and every row of the other cars, and
\* the rates, name, plate, owner and is_active of the car of the edited log.
C14_EditWritesOnlySuffix ==
    [][(last'.op = "update_log_entry" /\ last'.status_code = 200)
        => FrameOfEdit(fuel_logs, cars, fuel_logs', cars', last'.log_id)]_vars

\* C15: every call of update_log_entry, get_log_entry and get_initial_data
\* closes the connection it opened, whether it returns or raises: the number
\* of open connections after the call is the number before it.
C15_ConnectionReleased == [][open_conns' = open_conns]_vars

\* C16: whenever an editTrip succeeds, the same editTrip applied again right
\* after it succeeds too and leaves the logs and the cars as the first left them.
C16_EditIdempotent ==
    \A req \in Requests :
        \A once \in {UpdateLogEntry(fuel_logs, cars, start_fuel_col, req)} :
            once.status_code = 200 =>
                \A twice \in {UpdateLogEntry(once.db.fuel_logs, once.db.cars,
                                              start_fuel_col, req)} :
                    /\ twice.status_code = 200
                    /\ twice.db = once.db

\* The cars of a user that are active.
ActiveCarsOf(C, user_id) == {c \in DOMAIN C : C[c].user_id = user_id /\ C[c].is_active}

====
